---- MODULE Spec2Model ----
(***************************************************************************)
(* Model of the page-object core of the Twitch UI test suite:              *)
(*   BasePage.custom_wait      (the Condition Poller)                      *)
(*   BasePage.dismiss_overlays (the Overlay Dismisser)                     *)
(*   StreamerPage.is_video_playing, with handle_video_consent and          *)
(*   BasePage.safe_click                                                   *)
(* Time is a discrete clock; one tick is 0.05 s.  Text is a sequence of    *)
(* one-character strings, so that strip / lower / substring are computed.  *)
(***************************************************************************)
EXTENDS Integers, Sequences, FiniteSets, TLC

VARIABLES
    top,        \* the method called by the test: "custom_wait" | "dismiss_overlays" |
                \* "is_video_playing"
    pc,         \* position of the single thread of control
    page,       \* the rendered page: sequence (DOM order) of [e |-> element id, vis |-> BOOLEAN]
    page0,      \* the page when the call started
    changes,    \* spontaneous page changes so far
    \* ---- activation of custom_wait
    cwCond,     \* condition:  "none" | "const_true" | "not_visible" | "opaque" | "always_raise"
    cwElem,     \* element: a selector string, or "" (None)
    cwType,     \* check_type
    cwMax,      \* max_wait, ticks
    cwPoll,     \* poll_interval, ticks
    cwRetPc,    \* where the caller continues
    cwRet,      \* "none" while running, else "True" / "False"
    elapsed,    \* time.time() - start_time, ticks
    iterStart,  \* elapsed when the current iteration passed the loop test
    iterCost,   \* time the checks of the current iteration have taken
    lastLoc,    \* outcome of the last element check: "none" | "T" | "F" | "raise"
    nPred,      \* evaluations of condition() in this activation
    nLoc,       \* evaluations of the element check in this activation
    nSleeps,    \* time.sleep calls in this activation
    firstPred,  \* outcome of the first condition() call: "none" | "T" | "F" | "raise"
    \* ---- activation of dismiss_overlays
    dMax,       \* max_wait = max(0.2, wait_time)
    idx,        \* loop index of the running pass
    dynN,       \* btns.count() as evaluated for range()
    loc,        \* the locator handed to _click_and_wait_locator
    pending,    \* the pair the running pass returns after the helper
    result,     \* the returned pair, NoResult while running
    raised,     \* an exception left the called method
    attempts,   \* click attempts (locator.click / el.click()) in this call
    clicked,    \* ids of the elements that received a click
    vanished,   \* what the helper returned: "none" | "True" | "False"
    escSent,    \* keyboard.press("Escape") calls
    escRaised,  \* the key press raised
    faults      \* some browser operation of a pass, of an element check or of
                \* safe_click's click raised during the call

pollerVars == <<cwCond, cwElem, cwType, cwMax, cwPoll, cwRetPc, cwRet, elapsed,
                iterStart, iterCost, lastLoc, nPred, nLoc, nSleeps, firstPred>>
dismissVars == <<dMax, idx, dynN, loc, pending, result, attempts, clicked,
                 vanished, escSent, escRaised>>
vars == <<top, pc, page, page0, changes, pollerVars, dismissVars, raised, faults>>

-----------------------------------------------------------------------------
(* Bounds of the model *)
MaxElems == 2          \* elements on a page
MaxPageChanges == 1    \* spontaneous page changes during one call
MaxCheckCost == 1      \* ticks one predicate / locator evaluation can take

(* Program constants, in ticks of 0.05 s *)
Floor == 4             \* max(0.2, wait_time)
DismissPoll == 5       \* poll_interval = 0.25
DefaultPoll == 10      \* poll_interval: float = 0.5
EscapeWait == 2        \* max_wait=0.1
DefaultWaitTime == 20  \* wait_time: float = 1.0
ConsentWait == 100     \* max_wait=5
ClickTimeout == 200    \* timeout: float = 10

-----------------------------------------------------------------------------
(* Text *)
UpperAlpha == <<"A","B","C","D","E","F","G","H","I","J","K","L","M",
                "N","O","P","Q","R","S","T","U","V","W","X","Y","Z">>
LowerAlpha == <<"a","b","c","d","e","f","g","h","i","j","k","l","m",
                "n","o","p","q","r","s","t","u","v","w","x","y","z">>
Whitespace == {" ", "\n", "\t"}

LowerChar(c) ==
    IF \E i \in 1..26 : UpperAlpha[i] = c
    THEN LowerAlpha[CHOOSE i \in 1..26 : UpperAlpha[i] = c]
    ELSE c

\* str.lower()
Lower(s) == [i \in 1..Len(s) |-> LowerChar(s[i])]

\* str.strip()
Strip(s) ==
    LET keep == {i \in 1..Len(s) : s[i] \notin Whitespace}
    IN  IF keep = {} THEN <<>>
        ELSE LET lo == CHOOSE i \in keep : \A j \in keep : i <= j
                 hi == CHOOSE i \in keep : \A j \in keep : j <= i
             IN  SubSeq(s, lo, hi)

\* k in txt
Contains(hay, needle) ==
    \E i \in 0..(Len(hay) - Len(needle)) : SubSeq(hay, i + 1, i + Len(needle)) = needle

-----------------------------------------------------------------------------
(* Elements a page can hold.  An element is identified by its id. *)
NoText == <<>>
Element(tag, role, text, aria, title, alt, inDialog) ==
    [tag |-> tag, role |-> role, text |-> text, aria |-> aria, title |-> title,
     alt |-> alt, inDialog |-> inDialog]

Catalog ==
    [ btnCloseX   |-> Element("button", "", NoText, <<"C","l","o","s","e">>, NoText, NoText, FALSE),
      btnAccept   |-> Element("button", "", <<"A","c","c","e","p","t">>, NoText, NoText, NoText, FALSE),
      btnIAccept  |-> Element("button", "", <<"I"," ","A","c","c","e","p","t">>, NoText, NoText, NoText, FALSE),
      btnNoThanks |-> Element("button", "", <<"N","o"," ","t","h","a","n","k","s">>, NoText, NoText, NoText, FALSE),
      divNoThanks |-> Element("div", "button", <<" ","N","o"," ","T","h","a","n","k","s","\n">>, NoText, NoText, NoText, FALSE),
      imgClose    |-> Element("img", "", NoText, NoText, NoText, <<"C","l","o","s","e"," ","i","c","o","n">>, FALSE),
      divStartWatching |-> Element("div", "", <<"S","t","a","r","t"," ","W","a","t","c","h","i","n","g">>, NoText, NoText, NoText, FALSE) ]

ElemIds == DOMAIN Catalog

\* the order in which the elements stand in the document
DomOrder ==
    <<"btnCloseX", "btnAccept", "btnIAccept", "btnNoThanks", "divNoThanks",
      "imgClose", "divStartWatching">>

\* the elements the overlay passes are tried on
OverlayElems == ElemIds \ {"divStartWatching"}

(* Selector semantics of the browser library: [attr="v"] is an exact match,  *)
(* [attr*="v" i] a case-insensitive substring match, :has-text("v") a        *)
(* case-insensitive substring match on the element's text, and the XPath     *)
(* //div[text()='v'] a div whose text is exactly v.                          *)
IsButton(e) == e.tag = "button"
HasText(e, t) == Contains(Lower(e.text), Lower(t))
AttrHasI(a, t) == Contains(Lower(a), Lower(t))

SelAriaClose == "button[aria-label=\"Close\"]"
SelTextClose == "button:has-text(\"Close\")"
SelTextNoThanks == "button:has-text(\"No thanks\")"
SelTextNotNow == "button:has-text(\"Not now\")"
SelTextGotIt == "button:has-text(\"Got it\")"
SelTextIAccept == "button:has-text(\"I Accept\")"
SelTextAccept == "button:has-text(\"Accept\")"
SelDialogButton == "div[role=\"dialog\"] button"
SelAriaCloseI == "button[aria-label*=\"close\" i]"
SelAriaDismissI == "button[aria-label*=\"dismiss\" i]"
SelButtons == "button, [role='button']"
SelAnyAriaClose == "*[aria-label*=\"close\" i]"
SelAnyAriaAccept == "*[aria-label*=\"accept\" i]"
SelAnyAriaDismiss == "*[aria-label*=\"dismiss\" i]"
SelAnyTitleClose == "*[title*=\"close\" i]"
SelAnyTitleDismiss == "*[title*=\"dismiss\" i]"
SelAnyAltClose == "*[alt*=\"close\" i]"
consent_start_watching_button == "//div[text()='Start Watching']"

\* (mutant) "Accept" listed before "I Accept"
known_selectors_swapped ==
    << SelAriaClose, SelTextClose, SelTextNoThanks, SelTextNotNow, SelTextGotIt,
       SelTextAccept, SelTextIAccept, SelDialogButton, SelAriaCloseI, SelAriaDismissI >>

known_selectors ==
    << SelAriaClose, SelTextClose, SelTextNoThanks, SelTextNotNow, SelTextGotIt,
       SelTextIAccept, SelTextAccept, SelDialogButton, SelAriaCloseI, SelAriaDismissI >>

generic_attrs ==
    << SelAnyAriaClose, SelAnyAriaAccept, SelAnyAriaDismiss, SelAnyTitleClose,
       SelAnyTitleDismiss, SelAnyAltClose >>

keywords ==
    << <<"c","l","o","s","e">>, <<"d","i","s","m","i","s","s">>, <<"n","o">>, <<"d","e","n","y">>, <<"r","e","j","e","c","t">>, <<"c","a","n","c","e","l">>, <<"g","o","t"," ","i","t">>, <<"o","k">>, <<"a","c","c","e","p","t">> >>

Matches(sel, e) ==
    CASE sel = SelAriaClose      -> IsButton(e) /\ e.aria = <<"C","l","o","s","e">>
      [] sel = SelTextClose      -> IsButton(e) /\ HasText(e, <<"C","l","o","s","e">>)
      [] sel = SelTextNoThanks   -> IsButton(e) /\ HasText(e, <<"N","o"," ","t","h","a","n","k","s">>)
      [] sel = SelTextNotNow     -> IsButton(e) /\ HasText(e, <<"N","o","t"," ","n","o","w">>)
      [] sel = SelTextGotIt      -> IsButton(e) /\ HasText(e, <<"G","o","t"," ","i","t">>)
      [] sel = SelTextIAccept    -> IsButton(e) /\ HasText(e, <<"I"," ","A","c","c","e","p","t">>)
      [] sel = SelTextAccept     -> IsButton(e) /\ HasText(e, <<"A","c","c","e","p","t">>)
      [] sel = SelDialogButton   -> IsButton(e) /\ e.inDialog
      [] sel = SelAriaCloseI     -> IsButton(e) /\ AttrHasI(e.aria, <<"c","l","o","s","e">>)
      [] sel = SelAriaDismissI   -> IsButton(e) /\ AttrHasI(e.aria, <<"d","i","s","m","i","s","s">>)
      [] sel = SelButtons        -> IsButton(e) \/ e.role = "button"
      [] sel = SelAnyAriaClose   -> AttrHasI(e.aria, <<"c","l","o","s","e">>)
      [] sel = SelAnyAriaAccept  -> AttrHasI(e.aria, <<"a","c","c","e","p","t">>)
      [] sel = SelAnyAriaDismiss -> AttrHasI(e.aria, <<"d","i","s","m","i","s","s">>)
      [] sel = SelAnyTitleClose  -> AttrHasI(e.title, <<"c","l","o","s","e">>)
      [] sel = SelAnyTitleDismiss -> AttrHasI(e.title, <<"d","i","s","m","i","s","s">>)
      [] sel = SelAnyAltClose    -> AttrHasI(e.alt, <<"c","l","o","s","e">>)
      [] sel = consent_start_watching_button ->
            e.tag = "div" /\ e.text = <<"S","t","a","r","t"," ","W","a","t","c","h","i","n","g">>
      [] OTHER                   -> FALSE

(* Locators are lazy: every operation resolves the selector against the page *)
(* as it is then.  nth = -1 is the whole match list, nth = i is .nth(i),     *)
(* nth = 0 is .first.                                                        *)
Locator(sel, nth) == [sel |-> sel, nth |-> nth]
NoLoc == Locator("", -1)

MatchesOf(sel, pg) == SelectSeq(pg, LAMBDA x : Matches(sel, Catalog[x.e]))

Resolve(l, pg) ==
    LET m == MatchesOf(l.sel, pg)
    IN  IF l.nth = -1 THEN m
        ELSE IF l.nth < Len(m) THEN <<m[l.nth + 1]>> ELSE <<>>

\* locator.count()
Count(l, pg) == Len(Resolve(l, pg))

\* locator.is_visible() of a locator that resolves to at most one element:
\* False when nothing matches
IsVisible(l, pg) ==
    LET m == Resolve(l, pg) IN m # <<>> /\ m[1].vis

\* locator.inner_text()
InnerText(l, pg) == Catalog[Resolve(l, pg)[1].e].text

\* (mutant) the text lower-cased but not stripped
TxtNotStripped(l, pg) == Lower(InnerText(l, pg))

\* (btn.inner_text() or "").strip().lower()
Txt(l, pg) == Lower(Strip(InnerText(l, pg)))

\* any(k in txt for k in keywords)
AnyKeyword(txt) == \E i \in 1..Len(keywords) : Contains(txt, keywords[i])

-----------------------------------------------------------------------------
(* Pages *)
\* the page that holds the elements of present, in document order
PageOf(present, vis) ==
    LET order == SelectSeq(DomOrder, LAMBDA x : x \in present)
    IN  [i \in 1..Len(order) |-> [e |-> order[i], vis |-> vis[order[i]]]]

\* every page of at most MaxElems elements of ids, each visible or hidden
Pages(ids) ==
    { PageOf(present, vis) :
        present \in {p \in SUBSET ids : Cardinality(p) <= MaxElems},
        vis \in [ids -> BOOLEAN] }

SetVis(pg, i, v) == [pg EXCEPT ![i].vis = v]

\* the page as it is after the element with id e received a click: the site
\* may take the element away (hide it) or leave the page as it is
AfterClick(pg, e) ==
    {pg} \cup {SetVis(pg, i, FALSE) : i \in {j \in 1..Len(pg) : pg[j].e = e}}

NoResult == <<"", "running">>
None == "None"

Running == pc # "done"
Done == pc = "done"

\* the places where the next step reads the page
ReadsPage ==
    {"k_count", "k_vis", "h_count", "h_vis", "h_click", "h_js", "d_count", "d_vis",
     "d_text", "g_count", "g_vis", "cw_cond", "cw_elem", "sc_click"}

(* The site changes the page on its own: an element appears or disappears.  *)
(* A change is taken when the program is about to look at the page.         *)
PageChange ==
    /\ pc \in ReadsPage
    /\ changes < MaxPageChanges
    /\ \E i \in 1..Len(page) : page' = SetVis(page, i, ~page[i].vis)
    /\ changes' = changes + 1
    /\ UNCHANGED <<top, pc, page0, pollerVars, dismissVars, raised, faults>>

-----------------------------------------------------------------------------
(* BasePage.custom_wait *)
CheckTypes == {"visible", "hidden", "attached"}

\* (mutant) the loop test with <= for <
LoopCondInclusive(t, maxWait) == t <= maxWait

\* while time.time() - start_time < max_wait
LoopCond(t, maxWait) == t < maxWait

\* (mutant) the element check over every match instead of the first
ElementCheckAnyMatch(type, sel, pg) ==
    LET vis == \E i \in 1..Len(pg) : Matches(sel, Catalog[pg[i].e]) /\ pg[i].vis
    IN  CASE type = "visible"  -> vis
          [] type = "hidden"   -> ~vis
          [] type = "attached" -> Count(Locator(sel, -1), pg) > 0
          [] OTHER             -> FALSE

\* the element check of one iteration, by check_type
ElementCheck(type, sel, pg) ==
    CASE type = "visible"  -> IsVisible(Locator(sel, 0), pg)
      [] type = "hidden"   -> ~IsVisible(Locator(sel, 0), pg)
      [] type = "attached" -> Count(Locator(sel, -1), pg) > 0
      [] OTHER             -> FALSE

\* what one call of condition() can give: "T" (truthy), "F" (falsy), "raise"
PredOutcomes(cond, l, pg) ==
    CASE cond = "const_true"   -> {"T"}
      [] cond = "not_visible"  -> {IF IsVisible(l, pg) THEN "F" ELSE "T", "raise"}
      [] cond = "always_raise" -> {"raise"}
      [] OTHER                 -> {"T", "F", "raise"}

\* (mutant) no try / except around the checks: the exception leaves the loop
AfterConditionNoExcept(o) ==
    CASE o = "T"     -> "return_true"
      [] o = "F"     -> "cw_elem"
      [] o = "raise" -> "unwind"

\* (mutant) a true predicate does not return: the element check comes next
AfterConditionFallThrough(o) ==
    CASE o = "T"     -> "cw_elem"
      [] o = "F"     -> "cw_elem"
      [] o = "raise" -> "cw_sleep"

\* (mutant) the except clause around the predicate alone: the element check
\* of the iteration still runs
AfterConditionRaiseToElement(o) ==
    CASE o = "T"     -> "return_true"
      [] o = "F"     -> "cw_elem"
      [] o = "raise" -> "cw_elem"

\* where an iteration goes after condition() gave o
AfterCondition(o) ==
    CASE o = "T"     -> "return_true"
      [] o = "F"     -> "cw_elem"
      [] o = "raise" -> "cw_sleep"

\* the call: start_time = time.time()
CWCall(cond, elem, type, maxWait, poll, retPc) ==
    /\ cwCond' = cond /\ cwElem' = elem /\ cwType' = type
    /\ cwMax' = maxWait /\ cwPoll' = poll /\ cwRetPc' = retPc
    /\ cwRet' = "none" /\ elapsed' = 0 /\ iterStart' = 0 /\ iterCost' = 0
    /\ lastLoc' = "none"
    /\ nPred' = 0 /\ nLoc' = 0 /\ nSleeps' = 0 /\ firstPred' = "none"
    /\ pc' = "cw_loop"

CWReturn(v) == cwRet' = v /\ pc' = cwRetPc

cwStatic == <<cwCond, cwElem, cwType, cwMax, cwPoll, cwRetPc>>
callerVars == <<top, page, page0, changes, dismissVars, raised, faults>>

\* no activation of custom_wait
IdlePoller ==
    /\ cwCond = "none" /\ cwElem = "" /\ cwType = "visible" /\ cwMax = 0 /\ cwPoll = 0
    /\ cwRetPc = "done" /\ cwRet = "none" /\ elapsed = 0 /\ iterStart = 0
    /\ iterCost = 0 /\ lastLoc = "none" /\ nPred = 0 /\ nLoc = 0 /\ nSleeps = 0
    /\ firstPred = "none"

\* the caller goes on: the frame of custom_wait is gone
CWFrameDropped ==
    /\ cwCond' = "none" /\ cwElem' = "" /\ cwType' = "visible" /\ cwMax' = 0 /\ cwPoll' = 0
    /\ cwRetPc' = "done" /\ cwRet' = "none" /\ elapsed' = 0 /\ iterStart' = 0
    /\ iterCost' = 0 /\ lastLoc' = "none" /\ nPred' = 0 /\ nLoc' = 0 /\ nSleeps' = 0
    /\ firstPred' = "none"

\* the loop test, and return False
CWLoop ==
    /\ pc = "cw_loop"
    /\ IF LoopCond(elapsed, cwMax)
       THEN pc' = "cw_cond" /\ iterStart' = elapsed /\ iterCost' = 0 /\ UNCHANGED cwRet
       ELSE CWReturn("False") /\ UNCHANGED <<iterStart, iterCost>>
    /\ UNCHANGED <<cwStatic, elapsed, lastLoc, nPred, nLoc, nSleeps, firstPred, callerVars>>

\* if condition and condition(): return True
CWCondition ==
    /\ pc = "cw_cond"
    /\ IF cwCond = "none"
       THEN pc' = "cw_elem" /\ UNCHANGED <<cwRet, elapsed, iterCost, nPred, firstPred>>
       ELSE \E c \in 0..MaxCheckCost, o \in PredOutcomes(cwCond, loc, page) :
              /\ elapsed' = elapsed + c
              /\ iterCost' = iterCost + c
              /\ nPred' = nPred + 1
              /\ firstPred' = IF nPred = 0 THEN o ELSE firstPred
              /\ IF AfterCondition(o) = "return_true"
                 THEN CWReturn("True")
                 ELSE pc' = AfterCondition(o) /\ UNCHANGED cwRet
    /\ UNCHANGED <<cwStatic, iterStart, lastLoc, nLoc, nSleeps, callerVars>>

\* if element: ... the check by check_type; an exception is swallowed
CWElement ==
    /\ pc = "cw_elem"
    /\ IF cwElem = "" \/ cwType \notin CheckTypes
       THEN pc' = "cw_sleep" /\ UNCHANGED <<cwRet, elapsed, iterCost, lastLoc, nLoc, faults>>
       ELSE \E c \in 0..MaxCheckCost, raise \in BOOLEAN :
              /\ elapsed' = elapsed + c
              /\ iterCost' = iterCost + c
              /\ nLoc' = nLoc + 1
              /\ faults' = (faults \/ raise)
              /\ lastLoc' = IF raise THEN "raise"
                            ELSE IF ElementCheck(cwType, cwElem, page) THEN "T" ELSE "F"
              /\ IF ~raise /\ ElementCheck(cwType, cwElem, page)
                 THEN CWReturn("True")
                 ELSE pc' = "cw_sleep" /\ UNCHANGED cwRet
    /\ UNCHANGED <<cwStatic, iterStart, nPred, nSleeps, firstPred, top, page, page0,
                   changes, dismissVars, raised>>

\* (mutant) the sleep also waits out the rest of max_wait
CWSleepLong ==
    /\ pc = "cw_sleep"
    /\ elapsed' = elapsed + cwPoll + cwMax
    /\ nSleeps' = nSleeps + 1
    /\ pc' = "cw_loop"
    /\ UNCHANGED <<cwStatic, cwRet, iterStart, iterCost, lastLoc, nPred, nLoc, firstPred,
                   callerVars>>

\* time.sleep(poll_interval)
CWSleep ==
    /\ pc = "cw_sleep"
    /\ elapsed' = elapsed + cwPoll
    /\ nSleeps' = nSleeps + 1
    /\ pc' = "cw_loop"
    /\ UNCHANGED <<cwStatic, cwRet, iterStart, iterCost, lastLoc, nPred, nLoc, firstPred,
                   callerVars>>

-----------------------------------------------------------------------------
(* A test calls custom_wait *)
PollerElems == {"btnAccept", "btnIAccept"}
PollerConds == {"none", "const_true", "opaque", "always_raise"}
PollerMaxWaits == {-1, 0, EscapeWait, Floor}
PollerPolls == {1, DismissPoll, DefaultPoll}

IdleDismiss ==
    /\ dMax = 0 /\ idx = 0 /\ dynN = 0 /\ loc = NoLoc /\ pending = NoResult
    /\ result = NoResult /\ attempts = 0 /\ clicked = {} /\ vanished = "none"
    /\ escSent = 0 /\ escRaised = FALSE

InitPoller ==
    /\ top = "custom_wait"
    /\ pc = "cw_loop"
    /\ cwElem \in {"", SelTextAccept}
    /\ IF cwElem = ""
       THEN page = <<>> /\ cwType = "visible"
       ELSE page \in Pages(PollerElems) /\ cwType \in CheckTypes \cup {"other"}
    /\ page0 = page
    /\ changes = 0
    /\ cwCond \in PollerConds
    /\ cwMax \in PollerMaxWaits
    /\ cwPoll \in PollerPolls
    /\ cwRetPc = "done"
    /\ cwRet = "none" /\ elapsed = 0 /\ iterStart = 0 /\ iterCost = 0
    /\ lastLoc = "none"
    /\ nPred = 0 /\ nLoc = 0 /\ nSleeps = 0 /\ firstPred = "none"
    /\ IdleDismiss
    /\ raised = FALSE /\ faults = FALSE

NextPoller == CWLoop \/ CWCondition \/ CWElement \/ CWSleep \/ PageChange

SpecPoller == InitPoller /\ [][NextPoller]_vars

-----------------------------------------------------------------------------
(* BasePage.dismiss_overlays *)
Max(a, b) == IF a >= b THEN a ELSE b

helperVars == <<attempts, clicked, vanished>>
escVars == <<escSent, escRaised>>
frameVars == <<top, page0, changes, dMax, raised>>

\* _click_and_wait_locator(loc) is called; the pass returns pair after it
EnterHelper(l, pair) == loc' = l /\ pending' = pair /\ pc' = "h_count"

\* for sel in known_selectors: the next selector, or on to the keyword pass
KnownNext ==
    IF idx < Len(known_selectors)
    THEN pc' = "k_count" /\ idx' = idx + 1
    ELSE pc' = "d_count" /\ idx' = 0

\* except Exception: continue      (known-selector pass)
KnownExcept == KnownNext

\* loc = page.locator(sel).first; loc.count()
KnownCount ==
    /\ pc = "k_count"
    /\ \E raise \in BOOLEAN :
         IF raise THEN faults' = TRUE /\ KnownExcept
         ELSE /\ UNCHANGED faults
              /\ IF Count(Locator(known_selectors[idx], 0), page) > 0
                 THEN pc' = "k_vis" /\ UNCHANGED idx
                 ELSE KnownNext
    /\ UNCHANGED <<frameVars, page, pollerVars, dynN, loc, pending, result, helperVars, escVars>>

\* ... and loc.is_visible(): ok = _click_and_wait_locator(loc)
KnownVisible ==
    /\ pc = "k_vis"
    /\ \E raise \in BOOLEAN :
         IF raise THEN faults' = TRUE /\ KnownExcept /\ UNCHANGED <<loc, pending>>
         ELSE /\ UNCHANGED faults
              /\ IF IsVisible(Locator(known_selectors[idx], 0), page)
                 THEN /\ EnterHelper(Locator(known_selectors[idx], 0),
                                     <<known_selectors[idx], "known">>)
                      /\ UNCHANGED idx
                 ELSE KnownNext /\ UNCHANGED <<loc, pending>>
    /\ UNCHANGED <<frameVars, page, pollerVars, dynN, result, helperVars, escVars>>

\* where dismiss_overlays returns to: the test, or safe_click
DismissRetPc == IF top = "is_video_playing" THEN "sc_wait" ELSE "done"

\* the helper returns v without having called custom_wait
HelperReturn(v) == vanished' = v /\ pc' = "p_ret"

\* except Exception: return False      (_click_and_wait_locator)
HelperExcept == HelperReturn("False")

\* if locator.count() ...
HelperCount ==
    /\ pc = "h_count"
    /\ \E raise \in BOOLEAN :
         IF raise THEN HelperExcept
         ELSE IF Count(loc, page) > 0
              THEN pc' = "h_vis" /\ UNCHANGED vanished
              ELSE HelperReturn("False")
    /\ UNCHANGED <<frameVars, page, pollerVars, idx, dynN, loc, pending, result,
                   attempts, clicked, escVars, faults>>

\* ... and locator.is_visible()
HelperVisible ==
    /\ pc = "h_vis"
    /\ \E raise \in BOOLEAN :
         IF raise THEN HelperExcept
         ELSE IF IsVisible(loc, page)
              THEN pc' = "h_click" /\ UNCHANGED vanished
              ELSE HelperReturn("False")
    /\ UNCHANGED <<frameVars, page, pollerVars, idx, dynN, loc, pending, result,
                   attempts, clicked, escVars, faults>>

\* vanished = self.custom_wait(condition=lambda: not locator.is_visible(), ...)
VanishWait == CWCall("not_visible", "", "visible", dMax, DismissPoll, "h_ret")

\* locator.click(): the click lands when the locator resolves to a visible
\* element, and raises otherwise (or for any other reason)
HelperClick ==
    /\ pc = "h_click"
    /\ attempts' = attempts + 1
    /\ \/ /\ IsVisible(loc, page)
          /\ LET e == Resolve(loc, page)[1].e
             IN  /\ page' \in AfterClick(page, e)
                 /\ clicked' = clicked \cup {e}
          /\ VanishWait
       \/ /\ pc' = "h_js"
          /\ UNCHANGED <<page, clicked, pollerVars>>
    /\ UNCHANGED <<frameVars, idx, dynN, loc, pending, result, vanished, escVars, faults>>

\* handle = locator.element_handle(); if handle: page.evaluate("(el) => el.click()", handle)
\* except Exception: pass
HelperJsClick ==
    /\ pc = "h_js"
    /\ \/ /\ Count(loc, page) > 0
          /\ LET e == Resolve(loc, page)[1].e
             IN  /\ page' \in AfterClick(page, e)
                 /\ clicked' = clicked \cup {e}
          /\ attempts' = attempts + 1
       \/ UNCHANGED <<page, clicked, attempts>>
    /\ VanishWait
    /\ UNCHANGED <<frameVars, idx, dynN, loc, pending, result, vanished, escVars, faults>>

\* return vanished
HelperWaited ==
    /\ pc = "h_ret"
    /\ vanished' = cwRet
    /\ pc' = "p_ret"
    /\ CWFrameDropped
    /\ UNCHANGED <<frameVars, page, idx, dynN, loc, pending, result,
                   attempts, clicked, escVars, faults>>

\* (mutant) the pass does not return after the helper: the scan goes on with
\* the generic-attribute pass
PassReturnScansOn ==
    /\ pc = "p_ret"
    /\ pc' = "g_count" /\ idx' = 1
    /\ UNCHANGED <<frameVars, page, pollerVars, dynN, loc, pending, result, helperVars,
                   escVars, faults>>

\* return (sel, "known") / return (txt, "dynamic") / return (sel, "generic")
PassReturn ==
    /\ pc = "p_ret"
    /\ result' = pending
    /\ pc' = DismissRetPc
    /\ UNCHANGED <<frameVars, page, pollerVars, idx, dynN, loc, pending, helperVars,
                   escVars, faults>>

\* on to the generic-attribute pass
ToGeneric == pc' = "g_count" /\ idx' = 1

\* for i in range(btns.count()): the button at i, or the loop is over
DynGoto(i) == IF i < dynN THEN pc' = "d_vis" /\ idx' = i ELSE ToGeneric

\* except Exception: continue      (keyword pass, inner)
DynInnerExcept == DynGoto(idx + 1)

\* (mutant) no outer try / except: the exception leaves dismiss_overlays
DynOuterExceptMissing == pc' = "unwind" /\ UNCHANGED idx

\* except Exception: pass          (keyword pass, outer)
DynOuterExcept == ToGeneric

\* btns = page.locator("button, [role='button']"); range(btns.count())
DynCount ==
    /\ pc = "d_count"
    /\ \E raise \in BOOLEAN :
         IF raise THEN faults' = TRUE /\ DynOuterExcept /\ UNCHANGED dynN
         ELSE /\ UNCHANGED faults
              /\ dynN' = Count(Locator(SelButtons, -1), page)
              /\ IF 0 < dynN' THEN pc' = "d_vis" /\ idx' = 0 ELSE ToGeneric
    /\ UNCHANGED <<frameVars, page, pollerVars, loc, pending, result, helperVars, escVars>>

\* btn = btns.nth(i); if not btn.is_visible(): continue
DynVisible ==
    /\ pc = "d_vis"
    /\ \E raise \in BOOLEAN :
         IF raise THEN faults' = TRUE /\ DynOuterExcept
         ELSE /\ UNCHANGED faults
              /\ IF IsVisible(Locator(SelButtons, idx), page)
                 THEN pc' = "d_text" /\ UNCHANGED idx
                 ELSE DynGoto(idx + 1)
    /\ UNCHANGED <<frameVars, page, pollerVars, dynN, loc, pending, result, helperVars, escVars>>

\* txt = (btn.inner_text() or "").strip().lower(); if any(k in txt ...)
\* inner_text raises when the locator resolves to nothing (or for any other reason)
DynText ==
    /\ pc = "d_text"
    /\ \/ /\ faults' = TRUE
          /\ DynInnerExcept
          /\ UNCHANGED <<loc, pending>>
       \/ /\ Count(Locator(SelButtons, idx), page) > 0
          /\ UNCHANGED faults
          /\ LET txt == Txt(Locator(SelButtons, idx), page)
             IN  IF AnyKeyword(txt)
                 THEN EnterHelper(Locator(SelButtons, idx), <<txt, "dynamic">>)
                      /\ UNCHANGED idx
                 ELSE DynGoto(idx + 1) /\ UNCHANGED <<loc, pending>>
    /\ UNCHANGED <<frameVars, page, pollerVars, dynN, result, helperVars, escVars>>

\* for sel in generic_attrs: the next selector, or on to the Escape fallback
GenericNext ==
    IF idx < Len(generic_attrs)
    THEN pc' = "g_count" /\ idx' = idx + 1
    ELSE pc' = "esc" /\ idx' = 0

\* except Exception: continue      (generic-attribute pass)
GenericExcept == GenericNext

\* el = page.locator(sel).first; el.count()
GenericCount ==
    /\ pc = "g_count"
    /\ \E raise \in BOOLEAN :
         IF raise THEN faults' = TRUE /\ GenericExcept
         ELSE /\ UNCHANGED faults
              /\ IF Count(Locator(generic_attrs[idx], 0), page) > 0
                 THEN pc' = "g_vis" /\ UNCHANGED idx
                 ELSE GenericNext
    /\ UNCHANGED <<frameVars, page, pollerVars, dynN, loc, pending, result, helperVars, escVars>>

\* ... and el.is_visible(): _click_and_wait_locator(el)
GenericVisible ==
    /\ pc = "g_vis"
    /\ \E raise \in BOOLEAN :
         IF raise THEN faults' = TRUE /\ GenericExcept /\ UNCHANGED <<loc, pending>>
         ELSE /\ UNCHANGED faults
              /\ IF IsVisible(Locator(generic_attrs[idx], 0), page)
                 THEN /\ EnterHelper(Locator(generic_attrs[idx], 0),
                                     <<generic_attrs[idx], "generic">>)
                      /\ UNCHANGED idx
                 ELSE GenericNext /\ UNCHANGED <<loc, pending>>
    /\ UNCHANGED <<frameVars, page, pollerVars, dynN, result, helperVars, escVars>>

\* (mutant) the failed key press is reported as a success
EscapeExceptReportsEscape == result' = <<"Escape", "escape">> /\ pc' = "done"

\* except Exception: return (None, None)      (Escape fallback)
EscapeExcept == result' = <<None, "none">> /\ pc' = DismissRetPc

\* page.keyboard.press("Escape"); self.custom_wait(condition=lambda: True, max_wait=0.1)
Escape ==
    /\ pc = "esc"
    /\ escSent' = escSent + 1
    /\ \/ /\ escRaised' = TRUE
          /\ EscapeExcept
          /\ UNCHANGED pollerVars
       \/ /\ CWCall("const_true", "", "visible", EscapeWait, DefaultPoll, "esc_ret")
          /\ UNCHANGED <<escRaised, result>>
    /\ UNCHANGED <<frameVars, page, idx, dynN, loc, pending, helperVars, faults>>

\* return ("Escape", "escape")
EscapeReturn ==
    /\ pc = "esc_ret"
    /\ result' = <<"Escape", "escape">>
    /\ pc' = DismissRetPc
    /\ CWFrameDropped
    /\ UNCHANGED <<frameVars, page, idx, dynN, loc, pending, helperVars,
                   escVars, faults>>

-----------------------------------------------------------------------------
(* A test calls dismiss_overlays *)
WaitTimes == {0, Floor}

InitDismiss ==
    /\ top = "dismiss_overlays"
    /\ page \in Pages(OverlayElems)
    /\ page0 = page
    /\ changes = 0
    /\ \E wait_time \in WaitTimes : dMax = Max(Floor, wait_time)
    /\ pc = "k_count" /\ idx = 1
    /\ dynN = 0 /\ loc = NoLoc /\ pending = NoResult /\ result = NoResult
    /\ attempts = 0 /\ clicked = {} /\ vanished = "none"
    /\ escSent = 0 /\ escRaised = FALSE
    /\ IdlePoller
    /\ raised = FALSE /\ faults = FALSE

DismissStep ==
    \/ KnownCount \/ KnownVisible
    \/ HelperCount \/ HelperVisible \/ HelperClick \/ HelperJsClick \/ HelperWaited
    \/ PassReturn
    \/ DynCount \/ DynVisible \/ DynText
    \/ GenericCount \/ GenericVisible
    \/ Escape \/ EscapeReturn

NextDismiss ==
    DismissStep \/ CWLoop \/ CWCondition \/ CWElement \/ CWSleep \/ PageChange

SpecDismiss == InitDismiss /\ [][NextDismiss]_vars

-----------------------------------------------------------------------------
(* StreamerPage.is_video_playing, StreamerPage.handle_video_consent and      *)
(* BasePage.safe_click                                                       *)
VideoElems == {"divStartWatching", "btnCloseX", "divNoThanks", "imgClose"}
VideoMaxWaits == {0, DefaultPoll + DismissPoll}

\* self.dismiss_overlays(): the call, with the default wait_time
DismissEnter ==
    /\ dMax' = Max(Floor, DefaultWaitTime)
    /\ pc' = "k_count" /\ idx' = 1
    /\ dynN' = 0 /\ loc' = NoLoc /\ pending' = NoResult /\ result' = NoResult
    /\ attempts' = 0 /\ clicked' = {} /\ vanished' = "none"
    /\ escSent' = 0 /\ escRaised' = FALSE

\* the pair dismiss_overlays returned is not kept: its frame is gone
DismissFrameDropped ==
    /\ dMax' = 0 /\ idx' = 0 /\ dynN' = 0 /\ loc' = NoLoc /\ pending' = NoResult
    /\ result' = NoResult /\ attempts' = 0 /\ clicked' = {} /\ vanished' = "none"
    /\ escSent' = 0 /\ escRaised' = FALSE

\* return self.custom_wait(condition=video_check, max_wait=max_wait): what the
\* wait returns is what is_video_playing returns
VideoWait ==
    \E max_wait \in VideoMaxWaits :
        CWCall("opaque", "", "visible", max_wait, DefaultPoll, "done")

\* found = self.custom_wait(element=..., max_wait=5, check_type="visible");
\* if found: self.safe_click(...), which begins with self.dismiss_overlays()
VideoConsentFound ==
    /\ pc = "hvc_ret"
    /\ cwRet = "True"
    /\ CWFrameDropped
    /\ DismissEnter
    /\ UNCHANGED <<top, page, page0, changes, raised, faults>>

\* else: get_logger().info(...); handle_video_consent returns
VideoConsentNotFound ==
    /\ pc = "hvc_ret"
    /\ cwRet = "False"
    /\ VideoWait
    /\ UNCHANGED <<top, page, page0, changes, dismissVars, raised, faults>>

\* element_visible = self.custom_wait(element=selector, max_wait=timeout, check_type="visible")
SafeClickWait ==
    /\ pc = "sc_wait"
    /\ DismissFrameDropped
    /\ CWCall("none", consent_start_watching_button, "visible", ClickTimeout, DefaultPoll,
              "sc_vis")
    /\ UNCHANGED <<top, page, page0, changes, raised, faults>>

\* if not element_visible: raise TimeoutError(...)
\* nothing between here and the test catches it
SafeClickVisible ==
    /\ pc = "sc_vis"
    /\ IF cwRet = "False"
       THEN raised' = TRUE /\ pc' = "done"
       ELSE pc' = "sc_click" /\ UNCHANGED raised
    /\ UNCHANGED <<top, page, page0, changes, pollerVars, dismissVars, faults>>

\* locator = self.page.locator(selector); locator.click()
\* the click lands when the locator resolves to one visible element, and raises
\* otherwise (or for any other reason); safe_click and handle_video_consent
\* return and the wait for the video begins
SafeClickClick ==
    /\ pc = "sc_click"
    /\ \/ /\ Count(Locator(consent_start_watching_button, -1), page) = 1
          /\ IsVisible(Locator(consent_start_watching_button, 0), page)
          /\ page' \in AfterClick(page, Resolve(Locator(consent_start_watching_button, 0), page)[1].e)
          /\ VideoWait
          /\ UNCHANGED <<raised, faults>>
       \/ /\ raised' = TRUE /\ faults' = TRUE /\ pc' = "done"
          /\ UNCHANGED <<page, pollerVars>>
    /\ UNCHANGED <<top, page0, changes, dismissVars>>

\* self.handle_video_consent(): its wait for the consent button begins
InitVideo ==
    /\ top = "is_video_playing"
    /\ page \in Pages(VideoElems)
    /\ page0 = page
    /\ changes = 0
    /\ pc = "cw_loop"
    /\ cwCond = "none" /\ cwElem = consent_start_watching_button /\ cwType = "visible"
    /\ cwMax = ConsentWait /\ cwPoll = DefaultPoll /\ cwRetPc = "hvc_ret"
    /\ cwRet = "none" /\ elapsed = 0 /\ iterStart = 0 /\ iterCost = 0
    /\ lastLoc = "none"
    /\ nPred = 0 /\ nLoc = 0 /\ nSleeps = 0 /\ firstPred = "none"
    /\ IdleDismiss
    /\ raised = FALSE /\ faults = FALSE

VideoStep ==
    \/ VideoConsentFound \/ VideoConsentNotFound
    \/ SafeClickWait \/ SafeClickVisible \/ SafeClickClick

NextVideo ==
    VideoStep \/ DismissStep \/ CWLoop \/ CWCondition \/ CWElement \/ CWSleep \/ PageChange

SpecVideo == InitVideo /\ [][NextVideo]_vars

-----------------------------------------------------------------------------
(* Properties of custom_wait called on its own (SpecPoller) *)

PollerCall == top = "custom_wait"
PollerPcs == {"cw_loop", "cw_cond", "cw_elem", "cw_sleep", "done"}

\* the call was given something to check
HasCheck == cwCond # "none" \/ (cwElem # "" /\ cwType \in CheckTypes)
nChecks == nPred + nLoc

\* C1 as the spec states it: a max_wait below the 0.2 s floor is treated as the
\* floor, so at least one check is made before the call returns and a False
\* return comes no earlier than the floor.
C1_FloorApplied ==
    (PollerCall /\ Done /\ cwMax < Floor /\ HasCheck)
        => (nChecks >= 1 /\ (cwRet = "False" => elapsed >= Floor))

\* C1, amended: custom_wait applies no floor.  With max_wait <= 0 it returns
\* False at once and checks nothing; with max_wait > 0 (also below 0.2 s) it
\* makes at least one check, and a False return comes no earlier than max_wait.
C1_NoFloorInPoller ==
    (PollerCall /\ Done) =>
        /\ cwMax <= 0 => (nChecks = 0 /\ cwRet = "False" /\ elapsed = 0)
        /\ (cwMax > 0 /\ HasCheck) => nChecks >= 1
        /\ cwRet = "False" => elapsed >= cwMax

C1_Witness ==
    PollerCall /\ Done /\ cwMax <= 0 /\ cwCond = "const_true" /\ cwRet = "False"

\* how far a call of custom_wait has come: the clock, then the place in the
\* iteration
PollerProgress ==
    4 * elapsed + (CASE pc = "cw_loop"  -> 0
                     [] pc = "cw_cond"  -> 1
                     [] pc = "cw_elem"  -> 2
                     [] pc = "cw_sleep" -> 3
                     [] OTHER           -> 4)

PollerStep == CWLoop \/ CWCondition \/ CWElement \/ CWSleep

\* the latest a call can still be running
PollerHorizon == IF cwMax <= 0 THEN 0 ELSE cwMax - 1 + 2 * MaxCheckCost + cwPoll

MatchIdx(sel, pg) == {i \in 1..Len(pg) : Matches(sel, Catalog[pg[i].e])}
SomeMatchVisible(sel, pg) == \E i \in MatchIdx(sel, pg) : pg[i].vis
FirstMatchVisible(sel, pg) ==
    \E i \in MatchIdx(sel, pg) : pg[i].vis /\ \A j \in MatchIdx(sel, pg) : i <= j

\* an element check that did not raise was made in this step
LocCheckStep == pc = "cw_elem" /\ nLoc' = nLoc + 1 /\ lastLoc' # "raise"
ReturnsTrueStep == pc' = cwRetPc /\ cwRet' = "True"

\* C3 as the spec states it: the element check follows the set of matches.
C3_AnyMatch ==
    [][LocCheckStep =>
         (ReturnsTrueStep <=>
            CASE cwType = "visible" -> SomeMatchVisible(cwElem, page)
              [] cwType = "hidden"  -> ~SomeMatchVisible(cwElem, page)
              [] OTHER              -> MatchIdx(cwElem, page) # {})]_vars

\* C3, amended: the element check looks at the first match only.  "visible"
\* succeeds iff the first match is visible, "hidden" iff the first match is not
\* visible (or nothing matches), "attached" iff something matches.
C3_FirstMatch ==
    [][LocCheckStep =>
         (ReturnsTrueStep <=>
            CASE cwType = "visible" -> FirstMatchVisible(cwElem, page)
              [] cwType = "hidden"  -> ~FirstMatchVisible(cwElem, page)
              [] OTHER              -> MatchIdx(cwElem, page) # {})]_vars

C3_Witness ==
    /\ PollerCall /\ pc = "cw_sleep" /\ lastLoc = "F" /\ cwType = "visible"
    /\ changes = 0
    /\ SomeMatchVisible(cwElem, page) /\ ~FirstMatchVisible(cwElem, page)

\* C4 as the spec states it: a False return comes at an elapsed time between
\* max_wait and max_wait + poll_interval.
C4_WithinPoll ==
    (PollerCall /\ Done /\ cwRet = "False")
        => (cwMax <= elapsed /\ elapsed <= cwMax + cwPoll)

\* C4, amended: a False return comes no earlier than max_wait.  If an iteration
\* ran, the last one passed the loop test at s < max_wait and the return comes
\* at s + d + poll_interval, d being the time that iteration's checks took
\* (so before max_wait + poll_interval + d, and within max_wait + poll_interval
\* when the checks take no time); if none ran, at 0.
C4_WithinPollPlusCheck ==
    (PollerCall /\ Done /\ cwRet = "False") =>
        /\ cwMax <= elapsed
        /\ nSleeps = 0 => (elapsed = 0 /\ cwMax <= 0)
        /\ nSleeps > 0 =>
             /\ iterStart < cwMax
             /\ elapsed = iterStart + iterCost + cwPoll
             /\ elapsed < cwMax + cwPoll + iterCost
             /\ iterCost = 0 => elapsed < cwMax + cwPoll

C4_Witness ==
    PollerCall /\ Done /\ cwRet = "False" /\ nSleeps >= 2 /\ elapsed > cwMax + cwPoll

\* C5: when the first call of the predicate gives true, custom_wait returns
\* True in that step: nothing has slept and the element check was not made.
C5_FirstCheckTrue ==
    (PollerCall /\ firstPred = "T") =>
        (Done /\ cwRet = "True" /\ nSleeps = 0 /\ nLoc = 0 /\ nPred = 1 /\ lastLoc = "none")

C5_Witness ==
    /\ PollerCall /\ Done /\ firstPred = "T" /\ cwElem # ""
    /\ cwType = "visible" /\ FirstMatchVisible(cwElem, page)

-----------------------------------------------------------------------------
(* Properties of dismiss_overlays (SpecDismiss) *)

DismissCall == top = "dismiss_overlays"
ClickTags == {"known", "dynamic", "generic"}

\* the scanning passes ran on the page as it was at the call, with no browser
\* operation raising
QuietScan == ~faults /\ changes = 0

\* C6 as the spec states it: a result tagged known, dynamic or generic is
\* returned only after a click (native or scripted) was attempted in that call.
C6_ClickAttempted ==
    (DismissCall /\ Done /\ result[2] \in ClickTags) => attempts >= 1

EarlierThanAccept ==
    {SelAriaClose, SelTextClose, SelTextNoThanks, SelTextNotNow, SelTextGotIt,
     SelTextIAccept}

sNoThanks == <<"n","o"," ","t","h","a","n","k","s">>

ButtonLike(e) == e.tag = "button" \/ e.role = "button"
KnownVisibleOn(pg) ==
    \E k \in 1..Len(known_selectors) : FirstMatchVisible(known_selectors[k], pg)
\* the visible button-like elements of pg whose text holds a keyword
KeywordIdx(pg) ==
    {i \in 1..Len(pg) :
        /\ pg[i].vis /\ ButtonLike(Catalog[pg[i].e])
        /\ AnyKeyword(Lower(Strip(Catalog[pg[i].e].text)))}

NothingToFind(pg) ==
    /\ ~KnownVisibleOn(pg)
    /\ KeywordIdx(pg) = {}
    /\ \A k \in 1..Len(generic_attrs) : ~FirstMatchVisible(generic_attrs[k], pg)

DismissPcs ==
    {"k_count", "k_vis", "h_count", "h_vis", "h_click", "h_js", "h_ret", "p_ret",
     "d_count", "d_vis", "d_text", "g_count", "g_vis", "esc", "esc_ret",
     "cw_loop", "cw_cond", "cw_elem", "cw_sleep", "done"}

ResultTags == {"known", "dynamic", "generic", "escape", "none"}

\* how far a call of dismiss_overlays has come: the passes in their order,
\* then the helper, then the wait, then the returns
DismissProgress ==
    CASE pc = "k_count" -> 2 * idx
      [] pc = "k_vis"   -> 2 * idx + 1
      [] pc = "d_count" -> 30
      [] pc = "d_vis"   -> 31 + 2 * idx
      [] pc = "d_text"  -> 32 + 2 * idx
      [] pc = "g_count" -> 100 + 2 * idx
      [] pc = "g_vis"   -> 101 + 2 * idx
      [] pc = "esc"     -> 200
      [] pc = "h_count" -> 300
      [] pc = "h_vis"   -> 301
      [] pc = "h_click" -> 302
      [] pc = "h_js"    -> 303
      [] pc \in {"cw_loop", "cw_cond", "cw_elem", "cw_sleep"} -> 400 + PollerProgress
      [] pc \in {"h_ret", "esc_ret"} -> 1000
      [] pc = "p_ret"   -> 1001
      [] OTHER          -> 1002

DismissRun == DismissStep \/ CWLoop \/ CWCondition \/ CWElement \/ CWSleep

\* C10: dismiss_overlays never raises and always terminates.  Whatever browser
\* operation raises, control stays inside the method until it returns; a
\* running call always has a next step, every step brings it forward through
\* the passes, and the waits are bounded, so the call ends; what it returns is
\* a pair (identifier, tag) or (None, None).
C10_NeverRaisesTerminates ==
    /\ [](DismissCall => (pc \in DismissPcs /\ ~raised))
    /\ [](DismissCall /\ Done => (result[2] \in ResultTags /\ pc \in DismissPcs))
    /\ [](DismissCall /\ Running => (result[2] = "running" /\ ENABLED DismissRun))
    /\ [](DismissCall => (elapsed <= PollerHorizon /\ DismissProgress <= 1002))
    /\ [][DismissCall => DismissProgress' > DismissProgress]_<<pc, idx, elapsed>>

C10_Witness ==
    DismissCall /\ Done /\ faults /\ escRaised /\ result[2] = "none" /\ Len(page0) = 2

\* the places of a call after a click was delivered: the wait for the element
\* to vanish and the returns
AfterDelivery == {"cw_loop", "cw_cond", "cw_elem", "cw_sleep", "h_ret", "p_ret", "done"}

\* the visible elements of pg that some pass would pick
Candidates(pg) ==
    {i \in 1..Len(pg) :
        /\ pg[i].vis
        /\ \/ \E k \in 1..Len(known_selectors) : Matches(known_selectors[k], Catalog[pg[i].e])
           \/ i \in KeywordIdx(pg)
           \/ \E k \in 1..Len(generic_attrs) : Matches(generic_attrs[k], Catalog[pg[i].e])}

\* C11: one call of dismiss_overlays acts on at most one overlay.  At most one
\* page element receives a click over the whole call; the helper is entered at
\* most once, makes at most one native and one scripted click attempt, and the
\* scripted attempt is made only after the native one did not deliver; once a
\* click is delivered no pass scans again; the Escape key press is sent only
\* in a call in which no click was attempted and no element was clicked.
C11_AtMostOneOverlay ==
    /\ [](DismissCall =>
            /\ Cardinality(clicked) <= 1
            /\ attempts <= 2
            /\ clicked # {} => pc \in AfterDelivery
            /\ (escSent >= 1 \/ pc \in {"esc", "esc_ret"})
                  => (clicked = {} /\ attempts = 0 /\ pending[2] = "running"))
    /\ [][(DismissCall /\ pc # "h_count" /\ pc' = "h_count")
            => (pending[2] = "running" /\ attempts = 0 /\ clicked = {})]_vars
    /\ [][(DismissCall /\ pc = "h_js" /\ clicked' # clicked)
            => (clicked = {} /\ attempts = 1)]_vars

C11_Witness ==
    /\ DismissCall /\ Done /\ attempts = 2 /\ Cardinality(clicked) = 1
    /\ Cardinality(Candidates(page0)) = 2
    /\ \E i \in Candidates(page) : page[i].e \notin clicked

-----------------------------------------------------------------------------
(* Properties of is_video_playing (SpecVideo) *)

VideoCall == top = "is_video_playing"

\* C12 as the spec states it, on the runs in which no browser operation of the
\* overlay passes, of the element checks or of the final click raises:
\* whatever the page does, is_video_playing never raises and ends by returning
\* a boolean.
C12_ReturnsBoolean ==
    (VideoCall /\ ~faults) => (~raised /\ (Done => cwRet \in {"True", "False"}))

====
